---------------------------- MODULE Spec2Model ----------------------------
(***************************************************************************)
(* A model of the read_ctags crate: the tags-file grammar (CtagItem::parse  *)
(* and CtagItem::encode, ctag_item.rs) and the tags-file locator           *)
(* (TagsReader, tags_reader.rs).                                           *)
(*                                                                         *)
(* Text is modelled character by character: a Rust String is a sequence of *)
(* one-character strings, so that parsing and encoding are computed and    *)
(* not assumed.                                                            *)
(***************************************************************************)
EXTENDS Integers, Sequences, FiniteSets, TLC

VARIABLES
    input,      \* grammar: the text handed to CtagItem::parse
    gpc,        \* grammar: position of the caller ("start", "parsed", "encoded", "reparsed")
    grammar,    \* grammar: what parser::parse returned for input
    parsed,     \* grammar: what CtagItem::parse returned for input
    pick,       \* grammar: index of the parsed line whose entry is encoded (0: none)
    item,       \* grammar: the entry handed to encode
    line,       \* grammar: what encode returned for item
    reparsed,   \* grammar: what CtagItem::parse returned for line
    filenames,  \* locator: TagsReader.filenames
    fs,         \* locator: the file system, path -> result of fs::read_to_string
    lpc,        \* locator: position inside load ("idle", "loop", "return", "loaded")
    idx,        \* locator: position of the for loop of first_success in values
    outcome,    \* locator: the local `outcome` of first_success
    attempts,   \* locator: history of the positions handed to f (run), in order
    readResult, \* locator: what read() returned
    loaded      \* locator: what load() returned

gvars == <<input, gpc, grammar, parsed, pick, item, line, reparsed>>
lvars == <<filenames, fs, lpc, idx, outcome, attempts, readResult, loaded>>
vars == <<gvars, lvars>>

---------------------------------------------------------------------------
(* Bounds of the model.                                                    *)

\* most tab-separated tokens that follow the address of a generated line
MaxTokens == 3
\* most lines of a generated multi-line text
MaxLines == 2
\* most candidate paths of a TagsReader
MaxFiles == 3

---------------------------------------------------------------------------
(* Characters and strings.                                                 *)

TAB == "\t"
NL == "\n"
T == <<TAB>>
TERM == <<";", "\"">>

\* the code point of a character: String's Ord compares strings byte by byte
Code(c) ==
    CASE c = "\t" -> 9
      [] c = "\n" -> 10
      [] c = "\"" -> 34
      [] c = "." -> 46
      [] c = "/" -> 47
      [] c = "1" -> 49
      [] c = ":" -> 58
      [] c = ";" -> 59
      [] c = "S" -> 83
      [] c = "a" -> 97
      [] c = "b" -> 98
      [] c = "f" -> 102
      [] c = "r" -> 114
      [] c = "x" -> 120
      [] c = "y" -> 121

RECURSIVE StrLess(_, _)
\* a < b for Strings: lexicographic, a proper prefix is smaller
StrLess(a, b) ==
    IF b = <<>> THEN FALSE
    ELSE IF a = <<>> THEN TRUE
    ELSE IF Head(a) = Head(b) THEN StrLess(Tail(a), Tail(b))
    ELSE Code(Head(a)) < Code(Head(b))

\* s from position i (1-based) to its end
Drop(s, i) == SubSeq(s, i, Len(s))

RECURSIVE TakeTill(_, _, _)
\* the first position >= i of s holding a character of stops, Len(s)+1 when none
TakeTill(s, i, stops) ==
    IF i > Len(s) THEN Len(s) + 1
    ELSE IF s[i] \in stops THEN i
    ELSE TakeTill(s, i + 1, stops)

RECURSIVE FindTerm(_, _, _)
\* the first position p in i..(e-2) with s[p], s[p+1] = ;" and 0 when none
FindTerm(s, i, e) ==
    IF i + 1 >= e THEN 0
    ELSE IF s[i] = ";" /\ s[i + 1] = "\"" THEN i
    ELSE FindTerm(s, i + 1, e)

EndsWith(s, suffix) ==
    /\ Len(s) >= Len(suffix)
    /\ SubSeq(s, Len(s) - Len(suffix) + 1, Len(s)) = suffix

---------------------------------------------------------------------------
(* Language and TokenKind tables.                                          *)

\* Language::from_path: the language of a path, by its extension
LanguageFromPath(path) ==
    IF EndsWith(path, <<".", "r", "b">>) THEN "Ruby" ELSE "None"

Undefined == [tag |-> "Undefined"]

\* TokenKind::from_char: language-scoped, an unrecognised character is kept
TokenKindFromChar(c, language) ==
    IF language = "Ruby" /\ c = "S" THEN [tag |-> "SingletonMethod"]
    ELSE IF language = "Ruby" /\ c = "f" THEN [tag |-> "Method"]
    ELSE [tag |-> "Unknown", char |-> c]

\* TokenKind::to_token_char: the inverse of from_char
ToTokenChar(kind, language) ==
    IF kind.tag = "Unknown" THEN kind.char
    ELSE IF kind.tag = "SingletonMethod" THEN "S"
    ELSE "f"

---------------------------------------------------------------------------
(* CtagItem and its BTreeMap of extension fields.                          *)

\* BTreeMap<String, String> kept as an insertion-ordered Vec: no sorting, no
\* replacement of an existing key
VecPush(m, k, v) == Append(m, <<k, v>>)

RECURSIVE BTreeInsert(_, _, _)
\* BTreeMap::insert: the map is the sequence of its (key, value) pairs in
\* ascending key order; an existing key has its value replaced
BTreeInsert(m, k, v) ==
    IF m = <<>> THEN <<<<k, v>>>>
    ELSE IF Head(m)[1] = k THEN <<<<k, v>>>> \o Tail(m)
    ELSE IF StrLess(k, Head(m)[1]) THEN <<<<k, v>>>> \o m
    ELSE <<Head(m)>> \o BTreeInsert(Tail(m), k, v)

RECURSIVE BTreeFromFields(_)
\* the map collected from the (key, value) pairs of a line, in line order
BTreeFromFields(fields) ==
    IF fields = <<>> THEN <<>>
    ELSE LET n == Len(fields)
         IN  BTreeInsert(BTreeFromFields(SubSeq(fields, 1, n - 1)),
                         fields[n][1], fields[n][2])

\* struct CtagItem: a value of six fields, equal (derived Eq, Hash) when all
\* six are equal
CtagItem(name, file_path, address, language, tags, kind) ==
    [name |-> name, file_path |-> file_path, address |-> address,
     language |-> language, tags |-> tags, kind |-> kind]

RECURSIVE EncodeTagsFrom(_, _)
\* the pairs of tags from position i on, each as key:value, joined by tabs
EncodeTagsFrom(tags, i) ==
    IF i > Len(tags) THEN <<>>
    ELSE tags[i][1] \o <<":">> \o tags[i][2]
         \o (IF i < Len(tags) THEN T ELSE <<>>)
         \o EncodeTagsFrom(tags, i + 1)

RECURSIVE EncodeTagsReversed(_)
\* the pairs of tags joined by tabs, last pair first
EncodeTagsReversed(tags) ==
    IF tags = <<>> THEN <<>>
    ELSE LET n == Len(tags)
         IN  tags[n][1] \o <<":">> \o tags[n][2]
             \o (IF n > 1 THEN T ELSE <<>>)
             \o EncodeTagsReversed(SubSeq(tags, 1, n - 1))

\* the local `tags` of encode: self.tags.iter().map(format k:v).join("\t")
EncodeTags(tags) == EncodeTagsFrom(tags, 1)

\* encode that writes the ;" terminator and the kind column whatever the entry
EncodeAlwaysKind(e) ==
    e.name \o T \o e.file_path \o T \o e.address \o TERM \o T
    \o (IF e.kind = Undefined THEN <<>> ELSE <<ToTokenChar(e.kind, e.language)>>)
    \o (IF Len(e.tags) = 0 THEN <<>> ELSE T \o EncodeTags(e.tags))

\* encode that tells the forms apart by the kind alone
EncodeByKindOnly(e) ==
    IF e.kind = Undefined
    THEN e.name \o T \o e.file_path \o T \o e.address
    ELSE e.name \o T \o e.file_path \o T \o e.address \o TERM \o T
         \o <<ToTokenChar(e.kind, e.language)>>
         \o (IF Len(e.tags) = 0 THEN <<>> ELSE T \o EncodeTags(e.tags))

\* encode that never writes the ;" terminator
EncodeNoTerminator(e) ==
    e.name \o T \o e.file_path \o T \o e.address
    \o (IF e.kind = Undefined THEN <<>> ELSE T \o <<ToTokenChar(e.kind, e.language)>>)
    \o (IF Len(e.tags) = 0 THEN <<>> ELSE T \o EncodeTags(e.tags))

\* CtagItem::encode
Encode(e) ==
    LET tags == EncodeTags(e.tags)
    IN  IF Len(e.tags) = 0 /\ e.kind = Undefined
        THEN e.name \o T \o e.file_path \o T \o e.address
        ELSE IF e.kind = Undefined
        THEN e.name \o T \o e.file_path \o T \o e.address \o TERM \o T \o tags
        ELSE IF Len(e.tags) = 0
        THEN e.name \o T \o e.file_path \o T \o e.address \o TERM \o T
             \o <<ToTokenChar(e.kind, e.language)>>
        ELSE e.name \o T \o e.file_path \o T \o e.address \o TERM \o T
             \o <<ToTokenChar(e.kind, e.language)>> \o T \o tags

---------------------------------------------------------------------------
(* parser::parse, the grammar of a tags file.                              *)

RECURSIVE ParseFields(_, _, _)
\* zero or more "\t key:value" from position q of s, inside the line that ends
\* before position e: the pairs in line order and the position after them.
\* A key is non-empty and holds no ':' and no tab; a value runs to the next
\* tab or the end of the line.
ParseFields(s, q, e) ==
    IF q < e /\ s[q] = TAB
    THEN LET k == TakeTill(s, q + 1, {":", TAB, NL})
         IN  IF k > q + 1 /\ k < e /\ s[k] = ":"
             THEN LET v == TakeTill(s, k + 1, {TAB, NL})
                      more == ParseFields(s, v, e)
                  IN  [fields |-> <<<<SubSeq(s, q + 1, k - 1), SubSeq(s, k + 1, v - 1)>>>>
                                  \o more.fields,
                       pos |-> more.pos]
             ELSE [fields |-> <<>>, pos |-> q]
    ELSE [fields |-> <<>>, pos |-> q]

\* the packaging of one matched line: language from the path, kind from the
\* kind character ("" when the line has none), fields into the sorted map
MakeItem(name, file_path, address, kindChar, fields) ==
    LET language == LanguageFromPath(file_path)
    IN  CtagItem(name, file_path, address, language, BTreeFromFields(fields),
                 IF kindChar = "" THEN Undefined
                 ELSE TokenKindFromChar(kindChar, language))

NoLine == [ok |-> FALSE, reason |-> "", item |-> <<>>, form |-> 0,
           raw |-> <<>>, kindChar |-> "", text |-> <<>>, rest |-> <<>>]

\* whether a kind character stands after the terminator that ends before
\* position q: a tab, one character, then a tab or the end of the line
HasKind(s, q, e) ==
    /\ q + 1 < e
    /\ s[q] = TAB
    /\ s[q + 1] # TAB
    /\ (q + 2 = e \/ s[q + 2] = TAB)

\* a matched line with a terminator at t: kind character kc ("" when none)
\* and fields f
LineWithMeta(s, n1, n2, t, kc, f) ==
    [ok |-> TRUE, reason |-> "",
     item |-> MakeItem(SubSeq(s, 1, n1 - 1), SubSeq(s, n1 + 1, n2 - 1),
                       SubSeq(s, n2 + 1, t - 1), kc, f.fields),
     form |-> IF kc # "" THEN (IF f.fields = <<>> THEN 3 ELSE 4)
              ELSE (IF f.fields = <<>> THEN 2 ELSE 5),
     raw |-> f.fields, kindChar |-> kc,
     text |-> SubSeq(s, 1, f.pos - 1), rest |-> Drop(s, f.pos)]

\* the line after its address: minimal when the line holds no ;" (t = 0),
\* else the kind character and the fields that follow the terminator
ParseMeta(s, n1, n2, e, t) ==
    IF t = 0
    THEN [ok |-> TRUE, reason |-> "",
          item |-> MakeItem(SubSeq(s, 1, n1 - 1), SubSeq(s, n1 + 1, n2 - 1),
                            SubSeq(s, n2 + 1, e - 1), "", <<>>),
          form |-> 1, raw |-> <<>>, kindChar |-> "",
          text |-> SubSeq(s, 1, e - 1), rest |-> Drop(s, e)]
    ELSE IF HasKind(s, t + 2, e)
    THEN LineWithMeta(s, n1, n2, t, s[t + 3], ParseFields(s, t + 4, e))
    ELSE LineWithMeta(s, n1, n2, t, "", ParseFields(s, t + 2, e))

\* the address: up to the first ;" of the line, or the rest of the line
ParseAddress(s, n1, n2, e) == ParseMeta(s, n1, n2, e, FindTerm(s, n2 + 1, e))

\* the path, ended by a tab at n2
ParsePath(s, n1, n2) ==
    IF n2 > Len(s) \/ s[n2] # TAB
    THEN [NoLine EXCEPT !.reason = "Char", !.rest = Drop(s, n2)]
    ELSE ParseAddress(s, n1, n2, TakeTill(s, n2 + 1, {NL}))

\* the name: non-empty, ended by a tab at n1
ParseName(s, n1) ==
    IF n1 = 1 THEN [NoLine EXCEPT !.reason = "TakeWhile1", !.rest = s]
    ELSE IF n1 > Len(s) \/ s[n1] # TAB
    THEN [NoLine EXCEPT !.reason = "Char", !.rest = Drop(s, n1)]
    ELSE ParsePath(s, n1, TakeTill(s, n1 + 1, {TAB, NL}))

\* one line at the head of s, by the five alternatives; the ;" terminator is
\* what tells a line with metadata from the minimal form.  form, raw (the
\* fields in line order), kindChar and text (the characters matched) record
\* which alternative matched what.
ParseLine(s) == ParseName(s, TakeTill(s, 1, {TAB, NL}))

RECURSIVE ParseLines(_, _)
\* the lines of s one after the other, each followed by a newline or by the
\* end of the text; lines holds what was matched so far
ParseLines(s, lines) ==
    IF s = <<>>
    THEN [ok |-> TRUE, rest |-> <<>>, reason |-> "", lines |-> lines]
    ELSE LET r == ParseLine(s)
         IN  IF ~r.ok
             THEN [ok |-> FALSE, rest |-> r.rest, reason |-> r.reason, lines |-> <<>>]
             ELSE IF r.rest # <<>> /\ Head(r.rest) = NL
             THEN ParseLines(Tail(r.rest), Append(lines, r))
             ELSE [ok |-> TRUE, rest |-> r.rest, reason |-> "",
                   lines |-> Append(lines, r)]

\* parser::parse: an IResult, Ok((rest, outcome)) or Err((rest, reason)); the
\* outcome is the HashSet of the entries of the lines
ParserParse(text) ==
    LET r == ParseLines(text, <<>>)
    IN  [ok |-> r.ok, rest |-> r.rest, reason |-> r.reason, lines |-> r.lines,
         outcome |-> {r.lines[i].item : i \in 1..Len(r.lines)}]

\* CtagItem::parse that accepts whatever prefix the grammar matched
CtagItemParsePrefix(text) ==
    LET r == ParserParse(text)
    IN  IF r.ok THEN [tag |-> "Ok", items |-> r.outcome]
        ELSE [tag |-> "FailedParse", rest |-> r.rest, reason |-> r.reason]

\* CtagItem::parse
CtagItemParse(text) ==
    LET r == ParserParse(text)
    IN  IF r.ok /\ r.rest = <<>> THEN [tag |-> "Ok", items |-> r.outcome]
        ELSE IF r.ok THEN [tag |-> "IncompleteParse"]
        ELSE [tag |-> "FailedParse", rest |-> r.rest, reason |-> r.reason]

---------------------------------------------------------------------------
(* The texts the grammar is run on.                                        *)

Names == {<<"a">>}
Paths == {<<"f">>, <<"f", ".", "r", "b">>}
Addresses == {<<"1">>, <<>>}
Terminators == {<<>>, TERM, TERM \o <<"x">>}
Tokens == {<<"S">>, <<":">>, <<"b", ":", "x">>, <<"a", ":", "y">>, <<"a", ":">>,
           <<"b", ":", ":", "1">>, <<"S", "x">>}

RECURSIVE TokenTails(_)
\* up to n tokens, each after a tab
TokenTails(n) ==
    IF n = 0 THEN {<<>>}
    ELSE LET prev == TokenTails(n - 1)
         IN  prev \cup {T \o tok \o p : tok \in Tokens, p \in prev}

SingleLines ==
    {n \o T \o p \o T \o a \o t \o tail :
        n \in Names, p \in Paths, a \in Addresses, t \in Terminators,
        tail \in TokenTails(MaxTokens)}

Garbage == {<<>>, <<"x">>, <<"a", TAB, "f">>, <<TAB, "f", TAB, "1">>}

Head3 == <<"a", TAB, "f", TAB, "1">>
LinePool ==
    {Head3,
     Head3 \o TERM,
     Head3 \o TERM \o T \o <<"b", ":", "x">> \o T \o <<"a", ":", "y">>,
     Head3 \o TERM \o T \o <<"a", ":", "y">> \o T \o <<"b", ":", "x">>,
     Head3 \o TERM \o T \o <<"a", ":", "y">> \o T \o <<"a", ":">>,
     Head3 \o TERM \o T \o <<"a", ":">> \o T \o <<"a", ":", "y">>,
     <<"x">>}

RECURSIVE JoinedLines(_)
\* texts of 1..n lines of the pool, joined by newlines
JoinedLines(n) ==
    IF n <= 1 THEN LinePool
    ELSE LET prev == JoinedLines(n - 1)
         IN  prev \cup {l \o <<NL>> \o p : l \in LinePool, p \in prev}

MultiLines ==
    LET j == JoinedLines(MaxLines)
    IN  j \cup {t \o <<NL>> : t \in j}

Texts == SingleLines \cup Garbage \cup MultiLines

---------------------------------------------------------------------------
(* The grammar's caller: parse a text, encode one of its entries, parse    *)
(* the encoded line again.                                                 *)

None == [tag |-> "None"]

GInit ==
    /\ input \in Texts
    /\ gpc = "start"
    /\ grammar = None
    /\ parsed = None
    /\ pick = 0
    /\ item = None
    /\ line = <<>>
    /\ reparsed = None

GIdle ==
    /\ input = <<>>
    /\ gpc = "off"
    /\ grammar = None
    /\ parsed = None
    /\ pick = 0
    /\ item = None
    /\ line = <<>>
    /\ reparsed = None

\* CtagItem::parse(input)
Parse ==
    /\ gpc = "start"
    /\ grammar' = ParserParse(input)
    /\ parsed' = CtagItemParse(input)
    /\ gpc' = "parsed"
    /\ UNCHANGED <<input, pick, item, line, reparsed, lvars>>

\* entry.encode() for one entry of the parsed set: the entry of line i
EncodeItem ==
    /\ gpc = "parsed"
    /\ parsed.tag = "Ok"
    /\ \E i \in 1..Len(grammar.lines) :
        /\ pick' = i
        /\ item' = grammar.lines[i].item
        /\ line' = Encode(grammar.lines[i].item)
    /\ gpc' = "encoded"
    /\ UNCHANGED <<input, grammar, parsed, reparsed, lvars>>

\* CtagItem::parse(line) of the encoded line
Reparse ==
    /\ gpc = "encoded"
    /\ reparsed' = CtagItemParse(line)
    /\ gpc' = "reparsed"
    /\ UNCHANGED <<input, grammar, parsed, pick, item, line, lvars>>

---------------------------------------------------------------------------
(* TagsReader: the locator.                                                *)

FilePaths == {".git/tags", "tags", "tmp/tags"}

\* impl Default for TagsReader: the default search path
DefaultFilenames == <<".git/tags", "tags", "tmp/tags">>

\* what a file may hold: a text the grammar accepts, one it matches a prefix
\* of, one it fails on
Contents == {Head3, Head3 \o TERM \o <<"x">>, <<"x">>}
IoErrors == {"NotFound", "PermissionDenied"}

\* Error::new(io::ErrorKind::Other, "No file provided")
DefaultError == "No file provided"

ReadOutcomes ==
    {[ok |-> TRUE, value |-> c] : c \in Contents}
    \cup {[ok |-> FALSE, error |-> e] : e \in IoErrors}

RECURSIVE SeqsUpTo(_, _)
\* the sequences of at most n elements of S
SeqsUpTo(S, n) ==
    IF n = 0 THEN {<<>>}
    ELSE LET prev == SeqsUpTo(S, n - 1)
         IN  prev \cup {<<x>> \o q : x \in S, q \in prev}

\* TagsReader::run: fs::read_to_string(filename)
Run(filename) == fs[filename]

\* the candidates taken from the last to the first
CandidateReversed(values, i) == values[Len(values) + 1 - i]

\* the i-th x of `for &x in values.iter()`
Candidate(values, i) == values[i]

\* an assignment that keeps the first failure once there is one
AssignKeepFirstError(old, new) ==
    IF new.ok \/ old.error = DefaultError THEN new ELSE old

\* an assignment that keeps the default error when f fails
AssignKeepDefault(old, new) == IF new.ok THEN new ELSE old

\* `outcome = f(x)`: the new value of outcome given the old one and f(x)
Assign(old, new) == new

\* a loop that never leaves early
BreakNever(out) == FALSE

\* `if outcome.is_ok() { break; }`
Break(out) == out.ok

\* read's map_err: a failure gets every configured filename beside the error
ReadMapErr(names, out) ==
    IF out.ok THEN out
    ELSE [ok |-> FALSE, error |-> <<names, out.error>>]

\* the match of load over the result of read
LoadMatch(r) ==
    IF r.ok
    THEN LET g == ParserParse(r.value)
         IN  IF g.ok /\ g.rest = <<>> THEN [tag |-> "Ok", items |-> g.outcome]
             ELSE IF g.ok THEN [tag |-> "IncompleteParse"]
             ELSE [tag |-> "FailedParse", rest |-> g.rest, reason |-> g.reason]
    ELSE [tag |-> "NoCtagsFile", paths |-> r.error[1], error |-> r.error[2]]

LInit ==
    /\ filenames \in SeqsUpTo(FilePaths, MaxFiles)
    /\ fs \in [FilePaths -> ReadOutcomes]
    /\ lpc = "idle"
    /\ idx = 0
    /\ outcome = None
    /\ attempts = <<>>
    /\ readResult = None
    /\ loaded = None

LIdle ==
    /\ filenames = <<>>
    /\ fs = <<>>
    /\ lpc = "off"
    /\ idx = 0
    /\ outcome = None
    /\ attempts = <<>>
    /\ readResult = None
    /\ loaded = None

\* load calls read, read calls first_success: `let mut outcome = Err(default)`
FirstSuccessEnter ==
    /\ lpc = "idle"
    /\ outcome' = [ok |-> FALSE, error |-> DefaultError]
    /\ idx' = 1
    /\ lpc' = "loop"
    /\ UNCHANGED <<filenames, fs, attempts, readResult, loaded, gvars>>

\* one turn of the for loop: outcome = f(x); break when it is Ok
LoopTurn ==
    /\ lpc = "loop"
    /\ idx <= Len(filenames)
    /\ LET new == Assign(outcome, Run(Candidate(filenames, idx)))
       IN  /\ outcome' = new
           /\ attempts' = Append(attempts, idx)
           /\ IF Break(new)
              THEN lpc' = "return" /\ idx' = idx
              ELSE lpc' = "loop" /\ idx' = idx + 1
    /\ UNCHANGED <<filenames, fs, readResult, loaded, gvars>>

\* the iterator is exhausted: the loop ends
LoopEnd ==
    /\ lpc = "loop"
    /\ idx > Len(filenames)
    /\ lpc' = "return"
    /\ UNCHANGED <<filenames, fs, idx, outcome, attempts, readResult, loaded, gvars>>

\* first_success returns outcome; read maps the error; load matches on it
LoadReturn ==
    /\ lpc = "return"
    /\ readResult' = ReadMapErr(filenames, outcome)
    /\ loaded' = LoadMatch(ReadMapErr(filenames, outcome))
    /\ lpc' = "loaded"
    /\ UNCHANGED <<filenames, fs, idx, outcome, attempts, gvars>>

Init == GInit /\ LIdle
Next == Parse \/ EncodeItem \/ Reparse
Spec == Init /\ [][Next]_vars

LocatorInit == LInit /\ GIdle
LocatorNext == FirstSuccessEnter \/ LoopTurn \/ LoopEnd \/ LoadReturn
SpecLocator == LocatorInit /\ [][LocatorNext]_vars

---------------------------------------------------------------------------
(* Properties of the grammar, checked under Spec.                          *)

NoNewline(s) == \A i \in 1..Len(s) : s[i] # NL

\* the record of the parsed line whose entry was encoded
Picked == grammar.lines[pick]

\* the keys of fields, in line order, are strictly ascending
AscendingKeys(fields) ==
    \A i \in 1..(Len(fields) - 1) : StrLess(fields[i][1], fields[i + 1][1])

\* no key occurs twice in fields
DistinctKeys(fields) ==
    \A i, j \in 1..Len(fields) : i # j => fields[i][1] # fields[j][1]

\* how often pair x occurs in fields
Count(fields, x) == Cardinality({i \in 1..Len(fields) : fields[i] = x})

\* b holds the pairs of a, each as often, in whatever order
SameFieldsReordered(a, b) ==
    /\ Len(a) = Len(b)
    /\ \A i \in 1..Len(a) : Count(a, a[i]) = Count(b, a[i])

\* two parsed lines that differ in nothing but the order of their fields
DifferOnlyInFieldOrder(a, b) ==
    /\ a.item.name = b.item.name
    /\ a.item.file_path = b.item.file_path
    /\ a.item.address = b.item.address
    /\ a.kindChar = b.kindChar
    /\ a.raw # <<>>
    /\ SameFieldsReordered(a.raw, b.raw)

RECURSIVE SplitTab(_)
\* the tab-separated columns of s
SplitTab(s) ==
    LET k == TakeTill(s, 1, {TAB})
    IN  IF k > Len(s) THEN <<s>>
        ELSE <<SubSeq(s, 1, k - 1)>> \o SplitTab(Drop(s, k + 1))

\* the value the last field of key k in fields carries
LastValue(fields, k) ==
    LET last == CHOOSE i \in 1..Len(fields) :
                    /\ fields[i][1] = k
                    /\ \A j \in (i + 1)..Len(fields) : fields[j][1] # k
    IN  fields[last][2]

\* C1 as stated: every single line that parse accepts, the terminated form
\* and the lines with unsorted fields included, is what encode gives back
\* for the entry parsed from it.
C1_RoundTripEveryLine ==
    (gpc = "encoded" /\ NoNewline(input)) => line = input

\* C1, amended: a single line that parse accepts is what encode gives back
\* for the entry parsed from it, provided the line is not of the terminated
\* form (;" with nothing after it) and its field keys are strictly ascending.
C1_RoundTripCanonical ==
    (/\ gpc = "encoded"
     /\ NoNewline(input)
     /\ Picked.form # 2
     /\ AscendingKeys(Picked.raw))
    => line = input

C1_Witness ==
    /\ gpc = "encoded"
    /\ NoNewline(input)
    /\ Picked.form = 4
    /\ Len(Picked.raw) = 2
    /\ AscendingKeys(Picked.raw)
    /\ item.language = "Ruby"
    /\ line = input

C3_EncodeForms ==
    gpc = "encoded" =>
        LET prefix == item.name \o T \o item.file_path \o T \o item.address
            n == Len(item.tags)
            kc == <<ToTokenChar(item.kind, item.language)>>
        IN  /\ (n = 0 /\ item.kind = Undefined) => line = prefix
            /\ (n > 0 /\ item.kind = Undefined)
                => line = prefix \o TERM \o T \o EncodeTags(item.tags)
            /\ (n = 0 /\ item.kind # Undefined) => line = prefix \o TERM \o T \o kc
            /\ (n > 0 /\ item.kind # Undefined)
                => line = prefix \o TERM \o T \o kc \o T \o EncodeTags(item.tags)

C3_Witness ==
    /\ gpc = "encoded"
    /\ item.kind = Undefined
    /\ Len(item.tags) = 2
    /\ Len(SplitTab(line)) = 5
    /\ EndsWith(SplitTab(line)[3], TERM)

\* C6: CtagItem::parse gives the entries exactly when the grammar consumed
\* the whole input, IncompleteParse exactly when it matched and left a
\* remainder, FailedParse with the grammar's remainder and reason exactly
\* when it failed; no entries come with an error.
C6_ParseOutcomes ==
    gpc # "start" =>
        /\ parsed.tag \in {"Ok", "IncompleteParse", "FailedParse"}
        /\ parsed.tag = "Ok" <=> (grammar.ok /\ grammar.rest = <<>>)
        /\ parsed.tag = "IncompleteParse" <=> (grammar.ok /\ grammar.rest # <<>>)
        /\ parsed.tag = "FailedParse" <=> ~grammar.ok
        /\ parsed.tag = "Ok" => parsed = [tag |-> "Ok", items |-> grammar.outcome]
        /\ parsed.tag = "IncompleteParse" => DOMAIN parsed = {"tag"}
        /\ parsed.tag = "FailedParse"
            => parsed = [tag |-> "FailedParse", rest |-> grammar.rest,
                         reason |-> grammar.reason]

C6_Witness ==
    /\ gpc = "parsed"
    /\ parsed.tag = "IncompleteParse"
    /\ grammar.outcome # {}
    /\ grammar.rest # <<>>

\* C7 as stated: a text of two equal lines, or of two lines that differ only
\* in the order of their fields, parses to a set of one entry.
C7_DedupAnyFields ==
    (/\ gpc = "parsed"
     /\ parsed.tag = "Ok"
     /\ Len(grammar.lines) = 2
     /\ \/ grammar.lines[1].text = grammar.lines[2].text
        \/ DifferOnlyInFieldOrder(grammar.lines[1], grammar.lines[2]))
    => Cardinality(parsed.items) = 1

\* C7, amended: two lines of a parsed text that are equal, or that differ
\* only in the order of their fields and repeat no key, give the same entry;
\* a text of two such lines parses to a set of one entry.
C7_DedupDistinctKeys ==
    (gpc = "parsed" /\ parsed.tag = "Ok") =>
        /\ \A i, j \in 1..Len(grammar.lines) :
            (\/ grammar.lines[i].text = grammar.lines[j].text
             \/ /\ DifferOnlyInFieldOrder(grammar.lines[i], grammar.lines[j])
                /\ DistinctKeys(grammar.lines[i].raw))
            => grammar.lines[i].item = grammar.lines[j].item
        /\ (/\ Len(grammar.lines) = 2
            /\ \/ grammar.lines[1].text = grammar.lines[2].text
               \/ /\ DifferOnlyInFieldOrder(grammar.lines[1], grammar.lines[2])
                  /\ DistinctKeys(grammar.lines[1].raw))
            => Cardinality(parsed.items) = 1

C7_Witness ==
    /\ gpc = "parsed"
    /\ parsed.tag = "Ok"
    /\ Len(grammar.lines) = 2
    /\ grammar.lines[1].text # grammar.lines[2].text
    /\ DifferOnlyInFieldOrder(grammar.lines[1], grammar.lines[2])
    /\ DistinctKeys(grammar.lines[1].raw)
    /\ Cardinality(parsed.items) = 1

\* C8: the last columns of the encoded line of an entry with fields are its
\* fields, one column key:value for each key of the parsed line, in strictly
\* ascending key order whatever the order in the parsed line.
C8_FieldsAscending ==
    (gpc = "encoded" /\ Len(item.tags) >= 1) =>
        LET cols == SplitTab(line)
            raw == Picked.raw
            keys == {raw[i][1] : i \in 1..Len(raw)}
            m == Cardinality(keys)
            first == Len(cols) - m
            keyOf(c) == SubSeq(c, 1, TakeTill(c, 1, {":"}) - 1)
        IN  /\ first >= 3
            /\ \A i \in 1..m :
                /\ keyOf(cols[first + i]) \in keys
                /\ cols[first + i]
                    = keyOf(cols[first + i]) \o <<":">>
                      \o LastValue(raw, keyOf(cols[first + i]))
            /\ \A i \in 1..(m - 1) :
                StrLess(keyOf(cols[first + i]), keyOf(cols[first + i + 1]))
            /\ \/ EndsWith(cols[first], TERM)
               \/ /\ Len(cols[first]) = 1
                  /\ EndsWith(cols[first - 1], TERM)

C8_Witness ==
    /\ gpc = "encoded"
    /\ Len(item.tags) = 2
    /\ Len(Picked.raw) = 2
    /\ StrLess(Picked.raw[2][1], Picked.raw[1][1])
    /\ item.kind # Undefined

---------------------------------------------------------------------------
(* Properties of the locator, checked under SpecLocator.                   *)

Readable(i) == fs[filenames[i]].ok

FirstReadable ==
    CHOOSE i \in 1..Len(filenames) :
        Readable(i) /\ \A j \in 1..(i - 1) : ~Readable(j)

\* C4: when some candidate is readable, read gives the contents of the
\* first readable candidate of the list.
C4_FirstReadable ==
    (lpc = "loaded" /\ \E i \in 1..Len(filenames) : Readable(i)) =>
        readResult = [ok |-> TRUE, value |-> fs[filenames[FirstReadable]].value]

C4_Witness ==
    /\ lpc = "loaded"
    /\ Len(filenames) = 3
    /\ ~Readable(1) /\ Readable(2) /\ Readable(3)
    /\ fs[filenames[2]].value # fs[filenames[3]].value
    /\ readResult = [ok |-> TRUE, value |-> fs[filenames[2]].value]

\* C5: when every candidate of a non-empty list fails, load gives
\* NoCtagsFile with the whole list in its order and the failure of the last
\* candidate.
C5_AllFail ==
    (/\ lpc = "loaded"
     /\ Len(filenames) >= 1
     /\ \A i \in 1..Len(filenames) : ~Readable(i))
    => loaded = [tag |-> "NoCtagsFile", paths |-> filenames,
                 error |-> fs[filenames[Len(filenames)]].error]

C5_Witness ==
    /\ lpc = "loaded"
    /\ filenames = DefaultFilenames
    /\ \A i \in 1..3 : ~Readable(i)
    /\ fs[filenames[1]].error # fs[filenames[3]].error
    /\ loaded.tag = "NoCtagsFile"
    /\ loaded.error = fs[filenames[3]].error

\* C9: the candidates handed to run are, in order, the first candidates of
\* the list, each once, every one but the last of them a failure.
C9_AttemptsPrefix ==
    /\ Len(attempts) <= Len(filenames)
    /\ \A j \in 1..Len(attempts) :
        /\ attempts[j] = j
        /\ j < Len(attempts) => ~Readable(j)
    /\ lpc \in {"return", "loaded"} =>
        \/ Len(attempts) = Len(filenames)
        \/ Readable(Len(attempts))

C9_Witness ==
    /\ lpc = "loaded"
    /\ Len(filenames) = 3
    /\ attempts = <<1, 2>>
    /\ Readable(3)

\* C10: with no candidate nothing is read and load gives NoCtagsFile with an
\* empty list and the default error; with a candidate the default error is
\* never what load gives.
C10_DefaultError ==
    lpc = "loaded" =>
        /\ filenames = <<>> =>
            /\ attempts = <<>>
            /\ loaded = [tag |-> "NoCtagsFile", paths |-> <<>>,
                         error |-> DefaultError]
        /\ (loaded.tag = "NoCtagsFile" /\ loaded.error = DefaultError)
            => filenames = <<>>

C10_Witness ==
    /\ lpc = "loaded"
    /\ filenames = <<>>
    /\ attempts = <<>>
    /\ loaded.tag = "NoCtagsFile"
    /\ loaded.error = DefaultError

=============================================================================
